---- MODULE Spec2Model ----
(***************************************************************************)
(* Model of the message-framing layer of dive-computer-proto               *)
(* (src/src/protocol.rs): calculate_checksum, MessageHeader, Message::new, *)
(* Message::serialize and TryFrom<&[u8]> for Message<T>, together with the *)
(* postcard wire codec the framing layer calls for the header and for the  *)
(* payload (variable-length integers for u16/u32 and enum variant indices, *)
(* raw bytes for u8 and fixed-size arrays), and of DiveProfile and the      *)
(* integer arithmetic of calculate_ndl / calculate_ead                     *)
(* (src/src/dive_calc.rs).                                                 *)
(***************************************************************************)
EXTENDS Integers, Sequences, FiniteSets, TLC

VARIABLES
    pc,        \* where the message is: "input", "constructed", "serialized",
               \* "received" or "parsed"
    kind,      \* Message::new argument: the MessageKind
    sequence,  \* Message::new argument: the u16 sequence number
    payload,   \* Message::new argument: the payload value of type T
    msg,       \* what Message::new returned
    ser,       \* what Message::serialize returned
    data,      \* the byte slice handed to try_from
    tampers,   \* how many bytes of data were altered in transit
    ptype,     \* the payload type T try_from was asked for
    parsed,    \* what try_from returned
    profile,   \* the DiveProfile
    depths,    \* the depths passed to update_depth so far, oldest first
    before,    \* the DiveProfile as it was before the last operation on it
    op,        \* the last dive_calc operation: "new", "update_depth",
               \* "increment_duration", "update_temperature", "calculate_ndl"
               \* or "calculate_ead"
    calc       \* what calculate_ndl / calculate_ead evaluated, if that was
               \* the last operation

protocolVars == <<pc, kind, sequence, payload, msg, ser, data, tampers, ptype, parsed>>

diveVars == <<profile, depths, before, op, calc>>

vars == <<pc, kind, sequence, payload, msg, ser, data, tampers, ptype, parsed,
          profile, depths, before, op, calc>>

(***************************************************************************)
(* Program constants                                                       *)
(***************************************************************************)
MAX_MESSAGE_SIZE == 256

PROTOCOL_VERSION == 1

MESSAGE_MAGIC == <<220, 66>>

\* `if data.len() < 9` in try_from: "Minimum size for a header"
MIN_HEADER_LEN == 9

U16_MAX == 65535

(***************************************************************************)
(* Bounds of the model                                                     *)
(***************************************************************************)
\* how many bytes a transport may cut from the end of a message
MaxCut == 2

\* how many bytes of a received message may be altered
MaxTamper == 2

\* the leading bytes of a received message that may be altered
TamperSpan == 9

\* payload sizes MAX_MESSAGE_SIZE - OverReach .. MAX_MESSAGE_SIZE + 1 are built
OverReach == 10

\* the leading bytes of a payload in which a single bit may be flipped
FlipSpan == 4

\* how many extra bytes a foreign sender may frame behind a payload
MaxPad == 1

\* how many times update_depth is called on one profile
MaxDepthUpdates == 3

\* increment_duration is called while the total stays within this many seconds
MaxDuration == 3600

(***************************************************************************)
(* u8 arithmetic                                                           *)
(***************************************************************************)
RECURSIVE NotBits(_, _)
NotBits(x, n) ==
    IF n = 0 THEN 0 ELSE (1 - (x % 2)) + 2 * NotBits(x \div 2, n - 1)

\* `!x` on a u8
Not8(x) == NotBits(x, 8)

RECURSIVE XorBits(_, _, _)
XorBits(x, y, n) ==
    IF n = 0 THEN 0
    ELSE ((x + y) % 2) + 2 * XorBits(x \div 2, y \div 2, n - 1)

Xor8(x, y) == XorBits(x, y, 8)

\* u8::wrapping_add
wrapping_add(a, b) == (a + b) % 256

(***************************************************************************)
(* calculate_checksum                                                      *)
(***************************************************************************)
\* `for &byte in data { checksum = checksum.wrapping_add(byte) }` run over
\* bytes[lo..hi] in order, starting from `checksum`: a range of more than one
\* byte is run as its first half, then its second half from the u8 reached
RECURSIVE ChecksumLoop(_, _, _, _)
ChecksumLoop(bytes, lo, hi, checksum) ==
    IF lo > hi THEN checksum
    ELSE IF lo = hi THEN wrapping_add(checksum, bytes[lo])
    ELSE LET mid == (lo + hi) \div 2
             first == ChecksumLoop(bytes, lo, mid, checksum)
         IN  IF first \in 0..255
             THEN ChecksumLoop(bytes, mid + 1, hi, first)
             ELSE first

\* a checksum that returns the wrapping sum without inverting it
calculate_checksum_noInvert(bytes) == ChecksumLoop(bytes, 1, Len(bytes), 0)

calculate_checksum(bytes) == Not8(ChecksumLoop(bytes, 1, Len(bytes), 0))

(***************************************************************************)
(* Results: Ok(value) or Err(error)                                        *)
(***************************************************************************)
Ok(v) == [ok |-> TRUE, err |-> "", val |-> v]

Err(e) == [ok |-> FALSE, err |-> e, val |-> <<>>]

None == [ok |-> FALSE, err |-> "none", val |-> <<>>]

ProtocolError ==
    {"MessageTooLarge", "InvalidFormat", "ChecksumMismatch", "InvalidMagic",
     "UnsupportedVersion", "SerializationError", "DeserializationError"}

(***************************************************************************)
(* postcard (1.x wire format): variable-length integers                    *)
(***************************************************************************)
\* varint_max::<T>() for a T of `bits` bits
varint_max(bits) == (bits + 6) \div 7

\* max_of_last_byte::<T>()
max_of_last_byte(bits) == 2 ^ (bits % 7) - 1

\* A u32 is held as two 16-bit limbs <<low, high>>; a u16 has high = 0.
Limbs(n) == <<n % 65536, n \div 65536>>

\* value >> 7 on the limbs
ShiftRight7(v) == <<(v[1] \div 128) + (v[2] % 128) * 512, v[2] \div 128>>

\* (carry << shift) truncated to `bits` bits, on the limbs
ShiftLeft(carry, shift, bits) ==
    LET low == IF shift < 16 THEN (carry * 2 ^ shift) % 65536 ELSE 0
        high == IF shift < 16 THEN ((carry * 2 ^ shift) \div 65536) % 65536
                ELSE (carry * 2 ^ (shift - 16)) % 65536
    IN  <<low, IF bits > 16 THEN high ELSE 0>>

\* a | b for limbs with no set bit in common
OrDisjoint(a, b) == <<a[1] + b[1], a[2] + b[2]>>

\* serialize: low seven bits first, continuation bit 0x80 on all but the last
RECURSIVE VarintEncodeLimbs(_)
VarintEncodeLimbs(v) ==
    IF v[2] = 0 /\ v[1] < 128 THEN <<v[1]>>
    ELSE <<(v[1] % 128) + 128>> \o VarintEncodeLimbs(ShiftRight7(v))

VarintEncode(n) == VarintEncodeLimbs(Limbs(n))

\* try_take_varint_u16 / _u32: [ok, val, next], val the limbs of the value read
\* and next the position after it
RECURSIVE VarintLoop(_, _, _, _, _)
VarintLoop(bytes, pos, bits, i, out) ==
    IF i >= varint_max(bits) THEN [ok |-> FALSE, val |-> <<0, 0>>, next |-> pos]
    ELSE IF pos > Len(bytes) THEN [ok |-> FALSE, val |-> <<0, 0>>, next |-> pos]
    ELSE LET val == bytes[pos]
             carry == val % 128
             acc == OrDisjoint(out, ShiftLeft(carry, 7 * i, bits))
         IN  IF val < 128
             THEN IF i = varint_max(bits) - 1 /\ val > max_of_last_byte(bits)
                  THEN [ok |-> FALSE, val |-> <<0, 0>>, next |-> pos]
                  ELSE [ok |-> TRUE, val |-> acc, next |-> pos + 1]
             ELSE VarintLoop(bytes, pos + 1, bits, i + 1, acc)

VarintDecode(bytes, pos, bits) == VarintLoop(bytes, pos, bits, 0, <<0, 0>>)

(***************************************************************************)
(* postcard: the payload codec.  A payload type T is a list of variants,   *)
(* each a list of field types; a value names its variant and holds one     *)
(* sequence per field: the bytes of an array, <<n>> for a u8 or u16, the   *)
(* limbs <<low, high>> for a u32.                                          *)
(***************************************************************************)
U8 == [k |-> "u8", w |-> 8]

U16 == [k |-> "varint", w |-> 16]

U32 == [k |-> "varint", w |-> 32]

Arr(n) == [k |-> "array", w |-> n]

\* T = ()
UnitT == [name |-> "Unit", n |-> 0]

\* T = commands::Command
CommandT == [name |-> "Command", n |-> 0]

\* T = a fixed-size aggregate of n bytes, e.g. [[u8; 16]; 16]
BlobT(n) == [name |-> "Blob", n |-> n]

\* enum Command, in declaration order (serde's variant index is the position)
CommandVariants ==
    << <<>>,                \* 0  ID
       <<U16, U8>>,         \* 1  ReadSensor { sensor_id, reading_type }
       <<>>,                \* 2  StartDive
       <<>>,                \* 3  EndDive
       <<U16, U16>>,        \* 4  SetParameters { max_depth, max_time }
       <<>>,                \* 5  GetParameters
       <<U32, Arr(32)>>,    \* 6  LogDive { dive_id, data }
       <<U32>>,             \* 7  GetDiveLog { dive_id }
       <<>>,                \* 8  GetBatteryStatus
       <<>>,                \* 9  EnterLowPowerMode
       <<>>,                \* 10 ExitLowPowerMode
       <<>>,                \* 11 CalibrateSensors
       <<>>,                \* 12 RunDiagnostic
       <<>>,                \* 13 FactoryReset
       <<Arr(4), U16>>,     \* 14 UpdateFirmwareStart { version, total_chunks }
       <<U16, Arr(32)>>,    \* 15 UpdateFirmwareChunk { chunk_id, data }
       <<>> >>              \* 16 UpdateFirmwareComplete

IsEnum(ty) == ty.name = "Command"

Variants(ty) ==
    CASE ty.name = "Unit" -> << <<>> >>
      [] ty.name = "Command" -> CommandVariants
      [] ty.name = "Blob" -> << <<Arr(ty.n)>> >>

Value(ty, variant, fields) == [ty |-> ty, variant |-> variant, fields |-> fields]

EncodeField(ft, v) ==
    CASE ft.k = "u8" -> <<v[1]>>
      [] ft.k = "varint" -> VarintEncodeLimbs(IF ft.w > 16 THEN v ELSE <<v[1], 0>>)
      [] ft.k = "array" -> v

RECURSIVE EncodeFields(_, _, _)
EncodeFields(fts, vs, i) ==
    IF i > Len(fts) THEN <<>>
    ELSE EncodeField(fts[i], vs[i]) \o EncodeFields(fts, vs, i + 1)

\* the bytes postcard writes for a payload value
Encode(p) ==
    (IF IsEnum(p.ty) THEN VarintEncode(p.variant) ELSE <<>>)
    \o EncodeFields(Variants(p.ty)[p.variant + 1], p.fields, 1)

\* postcard::to_slice(&value, &mut buf) with buf of `cap` bytes
to_slice(p, cap) ==
    LET bytes == Encode(p)
    IN  IF Len(bytes) > cap THEN Err("SerializeBufferFull") ELSE Ok(bytes)

\* one field read at pos: [ok, val, next]
DecodeField(ft, bytes, pos) ==
    CASE ft.k = "u8" ->
           IF pos > Len(bytes) THEN [ok |-> FALSE, val |-> <<>>, next |-> pos]
           ELSE [ok |-> TRUE, val |-> <<bytes[pos]>>, next |-> pos + 1]
      [] ft.k = "varint" ->
           LET r == VarintDecode(bytes, pos, ft.w)
           IN  [ok |-> r.ok, val |-> IF ft.w > 16 THEN r.val ELSE <<r.val[1]>>,
                 next |-> r.next]
      [] ft.k = "array" ->
           IF pos + ft.w - 1 > Len(bytes)
           THEN [ok |-> FALSE, val |-> <<>>, next |-> pos]
           ELSE [ok |-> TRUE, val |-> SubSeq(bytes, pos, pos + ft.w - 1),
                 next |-> pos + ft.w]

RECURSIVE DecodeFields(_, _, _, _, _)
DecodeFields(fts, bytes, pos, i, acc) ==
    IF i > Len(fts) THEN [ok |-> TRUE, val |-> acc, next |-> pos]
    ELSE LET r == DecodeField(fts[i], bytes, pos)
         IN  IF ~r.ok THEN [ok |-> FALSE, val |-> <<>>, next |-> pos]
             ELSE DecodeFields(fts, bytes, r.next, i + 1, Append(acc, r.val))

\* postcard::from_bytes::<T>(bytes): bytes left over after the value are ignored
from_bytes(ty, bytes) ==
    LET tag == IF IsEnum(ty) THEN VarintDecode(bytes, 1, 32)
               ELSE [ok |-> TRUE, val |-> <<0, 0>>, next |-> 1]
    IN  IF ~tag.ok THEN Err("DeserializeBadVarint")
        ELSE IF tag.val[2] # 0 \/ tag.val[1] >= Len(Variants(ty))
        THEN Err("SerdeDeCustom")
        ELSE LET r == DecodeFields(Variants(ty)[tag.val[1] + 1], bytes, tag.next,
                                   1, <<>>)
             IN  IF r.ok THEN Ok(Value(ty, tag.val[1], r.val))
                 ELSE Err("DeserializeUnexpectedEnd")

(***************************************************************************)
(* MessageKind                                                             *)
(***************************************************************************)
MessageKind == <<"Command", "Response", "Notification", "Ack", "Error">>

RECURSIVE IndexOf(_, _, _)
IndexOf(s, x, i) == IF s[i] = x THEN i ELSE IndexOf(s, x, i + 1)

\* `kind as u8`: the declared discriminant, Command = 0x01 .. Error = 0x05
KindAsU8(k) == IndexOf(MessageKind, k, 1)

\* the variant index #[derive(Serialize)] hands to the codec: 0-based position
KindVariantIndex(k) == IndexOf(MessageKind, k, 1) - 1

(***************************************************************************)
(* MessageHeader                                                           *)
(***************************************************************************)
\* the 8 bytes MessageHeader::new and validate_checksum sum over
ChecksumImage(h) ==
    << h.magic[1], h.magic[2],
       h.version,
       KindAsU8(h.kind),
       (h.sequence \div 256) % 256, h.sequence % 256,
       (h.payload_length \div 256) % 256, h.payload_length % 256 >>

\* a constructor that sums only the low bytes of sequence and payload_length
MessageHeader_new_lowBytes(k, s, payload_length) ==
    [magic |-> MESSAGE_MAGIC,
     version |-> PROTOCOL_VERSION,
     kind |-> k,
     sequence |-> s,
     payload_length |-> payload_length,
     header_checksum |->
         calculate_checksum(<< MESSAGE_MAGIC[1], MESSAGE_MAGIC[2], PROTOCOL_VERSION,
                               KindAsU8(k), s % 256, payload_length % 256 >>)]

\* MessageHeader::new(kind, sequence, payload_length)
MessageHeader_new(k, s, payload_length) ==
    LET header == [magic |-> MESSAGE_MAGIC,
                   version |-> PROTOCOL_VERSION,
                   kind |-> k,
                   sequence |-> s,
                   payload_length |-> payload_length,
                   header_checksum |-> 0]
    IN  [header EXCEPT !.header_checksum = calculate_checksum(ChecksumImage(header))]

\* a validation that accepts whatever header_checksum the header carries
validate_checksum_any(h) == h.header_checksum \in 0..255

\* MessageHeader::validate_checksum(&self)
validate_checksum(h) == calculate_checksum(ChecksumImage(h)) = h.header_checksum

\* postcard::to_slice(&self.header, ..): the derived Serialize of MessageHeader
EncodeHeader(h) ==
    <<h.magic[1], h.magic[2]>>
    \o <<h.version>>
    \o VarintEncode(KindVariantIndex(h.kind))
    \o VarintEncode(h.sequence)
    \o VarintEncode(h.payload_length)
    \o <<h.header_checksum>>

\* postcard::take_from_bytes::<MessageHeader>(data): Ok([header, size]) or Err
DecodeHeader(bytes) ==
    IF Len(bytes) < 3 THEN Err("DeserializeUnexpectedEnd")
    ELSE LET k == VarintDecode(bytes, 4, 32)
         IN  IF ~k.ok THEN Err("DeserializeBadVarint")
             ELSE IF k.val[2] # 0 \/ k.val[1] >= Len(MessageKind)
             THEN Err("SerdeDeCustom")
             ELSE LET s == VarintDecode(bytes, k.next, 16)
                  IN  IF ~s.ok THEN Err("DeserializeBadVarint")
                      ELSE LET l == VarintDecode(bytes, s.next, 16)
                           IN  IF ~l.ok THEN Err("DeserializeBadVarint")
                               ELSE IF l.next > Len(bytes)
                               THEN Err("DeserializeUnexpectedEnd")
                               ELSE Ok([header |->
                                          [magic |-> <<bytes[1], bytes[2]>>,
                                           version |-> bytes[3],
                                           kind |-> MessageKind[k.val[1] + 1],
                                           sequence |-> s.val[1],
                                           payload_length |-> l.val[1],
                                           header_checksum |-> bytes[l.next]],
                                        size |-> l.next])

(***************************************************************************)
(* Message<T>                                                              *)
(***************************************************************************)
Zeros(n) == [i \in 1..n |-> 0]

\* a constructor that takes the length of the scratch buffer for the length of
\* the encoded payload
Message_new_bufferLen(k, s, p) ==
    LET r == to_slice(p, MAX_MESSAGE_SIZE)
    IN  IF ~r.ok THEN Err("SerializationError")
        ELSE LET payload_buffer == r.val \o Zeros(MAX_MESSAGE_SIZE - Len(r.val))
                 payload_length == Len(payload_buffer)
             IN  IF payload_length > U16_MAX THEN Err("MessageTooLarge")
                 ELSE Ok([header |-> MessageHeader_new(k, s, payload_length),
                          payload |-> p,
                          payload_checksum |->
                              calculate_checksum(SubSeq(payload_buffer, 1, payload_length))])

\* Message::new(kind, sequence, payload)
Message_new(k, s, p) ==
    LET r == to_slice(p, MAX_MESSAGE_SIZE)
    IN  IF ~r.ok THEN Err("SerializationError")
        ELSE LET payload_buffer == r.val \o Zeros(MAX_MESSAGE_SIZE - Len(r.val))
                 payload_length == Len(r.val)
             IN  IF payload_length > U16_MAX THEN Err("MessageTooLarge")
                 ELSE Ok([header |-> MessageHeader_new(k, s, payload_length),
                          payload |-> p,
                          payload_checksum |->
                              calculate_checksum(SubSeq(payload_buffer, 1, payload_length))])

\* Message::serialize(&self): Ok([len, buffer]) with buffer of MAX_MESSAGE_SIZE bytes
Message_serialize(m) ==
    LET h == EncodeHeader(m.header)
    IN  IF Len(h) > MAX_MESSAGE_SIZE THEN Err("SerializationError")
        ELSE LET r == to_slice(m.payload, MAX_MESSAGE_SIZE - Len(h))
             IN  IF ~r.ok THEN Err("SerializationError")
                 ELSE LET offset == Len(h) + Len(r.val)
                      IN  IF offset >= MAX_MESSAGE_SIZE THEN Err("MessageTooLarge")
                          ELSE Ok([len |-> offset + 1,
                                   buffer |-> h \o r.val \o <<m.payload_checksum>>
                                              \o Zeros(MAX_MESSAGE_SIZE - offset - 1)])

\* a header validation that verifies the checksum before magic and version
ValidateHeader_checksumFirst(header) ==
    IF ~validate_checksum(header) THEN "ChecksumMismatch"
    ELSE IF header.magic # MESSAGE_MAGIC THEN "InvalidMagic"
    ELSE IF header.version # PROTOCOL_VERSION THEN "UnsupportedVersion"
    ELSE ""

\* try_from, "Validate header": the first failing check, or "" when all pass
ValidateHeader(header) ==
    IF header.magic # MESSAGE_MAGIC THEN "InvalidMagic"
    ELSE IF header.version # PROTOCOL_VERSION THEN "UnsupportedVersion"
    ELSE IF ~validate_checksum(header) THEN "ChecksumMismatch"
    ELSE ""

\* a length check that looks at the header size only
EnoughData_headerOnly(bytes, header_size, header) ==
    ~(Len(bytes) < header_size)

\* a length check that forgets the trailing payload checksum byte
EnoughData_noChecksumByte(bytes, header_size, header) ==
    LET expected_size == header_size + header.payload_length
    IN  ~(Len(bytes) < expected_size)

\* try_from, "Check if we have enough data for the payload"
EnoughData(bytes, header_size, header) ==
    LET expected_size == header_size + header.payload_length + 1
    IN  ~(Len(bytes) < expected_size)

\* a payload stage that decodes the payload and never compares its checksum
ParsePayload_noChecksum(bytes, header_size, header, ty) ==
    IF header_size + header.payload_length + 1 > Len(bytes) THEN Err("panic")
    ELSE LET payload_data == SubSeq(bytes, header_size + 1,
                                    header_size + header.payload_length)
             p == from_bytes(ty, payload_data)
         IN  IF ~p.ok THEN Err("DeserializationError")
             ELSE Ok([header |-> header,
                      payload |-> p.val,
                      payload_checksum |->
                          bytes[header_size + header.payload_length + 1]])

\* a payload stage that compares the checksum first and decodes afterwards
ParsePayload_checksumFirst(bytes, header_size, header, ty) ==
    IF header_size + header.payload_length + 1 > Len(bytes) THEN Err("panic")
    ELSE LET payload_data == SubSeq(bytes, header_size + 1,
                                    header_size + header.payload_length)
             payload_checksum == bytes[header_size + header.payload_length + 1]
             p == from_bytes(ty, payload_data)
         IN  IF calculate_checksum(payload_data) # payload_checksum
             THEN Err("ChecksumMismatch")
             ELSE IF ~p.ok THEN Err("DeserializationError")
             ELSE Ok([header |-> header,
                      payload |-> p.val,
                      payload_checksum |-> payload_checksum])

\* try_from, "Deserialize payload" and "Validate payload checksum"; slicing or
\* indexing `data` past its end panics
ParsePayload(bytes, header_size, header, ty) ==
    IF header_size + header.payload_length > Len(bytes) THEN Err("panic")
    ELSE LET payload_data == SubSeq(bytes, header_size + 1,
                                    header_size + header.payload_length)
             p == from_bytes(ty, payload_data)
         IN  IF ~p.ok THEN Err("DeserializationError")
             ELSE IF header_size + header.payload_length + 1 > Len(bytes)
             THEN Err("panic")
             ELSE LET payload_checksum ==
                          bytes[header_size + header.payload_length + 1]
                      calculated_checksum == calculate_checksum(payload_data)
                  IN  IF calculated_checksum # payload_checksum
                      THEN Err("ChecksumMismatch")
                      ELSE Ok([header |-> header,
                               payload |-> p.val,
                               payload_checksum |-> payload_checksum])

\* <Message<T> as TryFrom<&[u8]>>::try_from(data)
Message_try_from(bytes, ty) ==
    IF Len(bytes) < MIN_HEADER_LEN THEN Err("InvalidFormat")
    ELSE LET d == DecodeHeader(bytes)
         IN  IF ~d.ok THEN Err("DeserializationError")
             ELSE LET gate == ValidateHeader(d.val.header)
                  IN  IF gate # "" THEN Err(gate)
                      ELSE IF ~EnoughData(bytes, d.val.size, d.val.header)
                      THEN Err("InvalidFormat")
                      ELSE ParsePayload(bytes, d.val.size, d.val.header, ty)

(***************************************************************************)
(* dive_calc: GasType, DiveProfile, calculate_ndl, calculate_ead           *)
(***************************************************************************)
\* GasType values; a field a variant does not have is held at 0
Air == [tag |-> "Air", oxygen_percent |-> 0, helium_percent |-> 0]

Nitrox(oxygen_percent) ==
    [tag |-> "Nitrox", oxygen_percent |-> oxygen_percent, helium_percent |-> 0]

Trimix(oxygen_percent, helium_percent) ==
    [tag |-> "Trimix", oxygen_percent |-> oxygen_percent,
     helium_percent |-> helium_percent]

\* DiveProfile::new(gas)
DiveProfile_new(gas) ==
    [max_depth_cm |-> 0,
     current_depth_cm |-> 0,
     duration_seconds |-> 0,
     gas |-> gas,
     temperature_celsius_x10 |-> 200,
     ascent_rate_cm_per_min |-> 0,
     descent_rate_cm_per_min |-> 0]

\* an update that overwrites the maximum with every new depth
update_depth_overwriteMax(p, new_depth_cm) ==
    [p EXCEPT !.current_depth_cm = new_depth_cm, !.max_depth_cm = new_depth_cm]

\* DiveProfile::update_depth(&mut self, new_depth_cm)
update_depth(p, new_depth_cm) ==
    LET q == [p EXCEPT !.current_depth_cm = new_depth_cm]
    IN  IF new_depth_cm > p.max_depth_cm
        THEN [q EXCEPT !.max_depth_cm = new_depth_cm]
        ELSE q

\* DiveProfile::increment_duration(&mut self, seconds); the sum stays far
\* below the u32 range within MaxDuration
increment_duration(p, seconds) ==
    [p EXCEPT !.duration_seconds = p.duration_seconds + seconds]

\* DiveProfile::update_temperature(&mut self, celsius_x10)
update_temperature(p, celsius_x10) ==
    [p EXCEPT !.temperature_celsius_x10 = celsius_x10]

\* a - b on u8 operands.  With a < b the build decides: with overflow checks
\* (debug profile) the subtraction panics, without them (release profile) it
\* wraps modulo 256.
SubU8(a, b, overflow_checks) ==
    IF a >= b THEN [panic |-> FALSE, value |-> a - b]
    ELSE IF overflow_checks THEN [panic |-> TRUE, value |-> 0]
    ELSE [panic |-> FALSE, value |-> (a - b + 256) % 256]

\* calculate_ndl, GasType::Air arm: the table of limits in minutes
AirNdl(depth_meters) ==
    IF depth_meters < 10 THEN 219
    ELSE IF depth_meters < 15 THEN 150
    ELSE IF depth_meters < 20 THEN 75
    ELSE IF depth_meters < 25 THEN 40
    ELSE IF depth_meters < 30 THEN 25
    ELSE IF depth_meters < 35 THEN 20
    ELSE IF depth_meters < 40 THEN 15
    ELSE 10

\* what a calculation evaluated: whether it subtracted u8 percentages at all,
\* the outcome of that subtraction, and the integer it started from (the air
\* limit for calculate_ndl, depth_meters for calculate_ead).  The f32
\* arithmetic that follows the subtraction is not represented.
Evaluated(name, subtracts, outcome, base) ==
    [op |-> name, subtracts |-> subtracts, panic |-> outcome.panic,
     percent |-> outcome.value, base |-> base]

NoSubtraction == [panic |-> FALSE, value |-> 0]

NoCalc == Evaluated("none", FALSE, NoSubtraction, 0)

\* calculate_ndl(depth_meters, gas): `100 - oxygen_percent` in the Nitrox and
\* Trimix arms
calculate_ndl(depth_meters, gas, overflow_checks) ==
    IF gas.tag = "Air"
    THEN Evaluated("calculate_ndl", FALSE, NoSubtraction, AirNdl(depth_meters))
    ELSE Evaluated("calculate_ndl", TRUE,
                   SubU8(100, gas.oxygen_percent, overflow_checks),
                   AirNdl(depth_meters))

\* calculate_ead(depth_meters, gas): `100 - oxygen_percent` in the Nitrox arm,
\* `100 - oxygen_percent - helium_percent` (left to right) in the Trimix arm
calculate_ead(depth_meters, gas, overflow_checks) ==
    IF gas.tag = "Air"
    THEN Evaluated("calculate_ead", FALSE, NoSubtraction, depth_meters)
    ELSE IF gas.tag = "Nitrox"
    THEN Evaluated("calculate_ead", TRUE,
                   SubU8(100, gas.oxygen_percent, overflow_checks), depth_meters)
    ELSE LET first == SubU8(100, gas.oxygen_percent, overflow_checks)
         IN  Evaluated("calculate_ead", TRUE,
                       IF first.panic THEN first
                       ELSE SubU8(first.value, gas.helium_percent, overflow_checks),
                       depth_meters)

(***************************************************************************)
(* Inputs                                                                  *)
(***************************************************************************)
Kinds == {MessageKind[i] : i \in 1..Len(MessageKind)}

\* one sequence number per encoded width (1, 2 and 3 bytes); 123 as in protocol_example
Sequences == {123, 128, U16_MAX}

Fill(n, b) == [i \in 1..n |-> b]

UnitValue == Value(UnitT, 0, <<>>)

CommandValues ==
    { Value(CommandT, 0, <<>>),
      Value(CommandT, 1, << <<300>>, <<2>> >>),
      Value(CommandT, 6, << Limbs(70000), Fill(32, 7) >>),
      Value(CommandT, 8, <<>>),
      Value(CommandT, 14, << <<1, 0, 0, 0>>, <<200>> >>) }

BlobValue(n) == Value(BlobT(n), 0, <<Fill(n, 165)>>)

BlobSizes == {3} \cup ((MAX_MESSAGE_SIZE - OverReach)..(MAX_MESSAGE_SIZE + 1))

Payloads == {UnitValue} \cup CommandValues \cup {BlobValue(n) : n \in BlobSizes}

\* the payload types a receiver may ask try_from for
ParseTypes(p) == {p.ty, UnitT, CommandT}

TamperMasks == {1}

\* breathing gases: air, nitrox and trimix mixes from the examples and the
\* ends of the u8 range of each percentage
GasTypes ==
    {Air}
    \cup {Nitrox(o) : o \in {32, 100, 101}}
    \cup {Trimix(18, h) : h \in {45, 83}}
    \cup {Trimix(255, 0)}

\* depths in cm: the surface, the two example depths and the u16 maximum
Depths == {0, 1830, 4000, U16_MAX}

Seconds == {600, 3600}

Temperatures == {-15, 182}

(***************************************************************************)
(* The state machine: construct, serialize, transport, parse               *)
(***************************************************************************)
Init ==
    /\ pc = "input"
    /\ kind \in Kinds
    /\ sequence \in Sequences
    /\ payload \in Payloads
    /\ msg = None
    /\ ser = None
    /\ data = <<>>
    /\ tampers = 0
    /\ ptype = UnitT
    /\ parsed = None
    /\ profile = DiveProfile_new(Air)
    /\ depths = <<>>
    /\ before = DiveProfile_new(Air)
    /\ op = "new"
    /\ calc = NoCalc

New ==
    /\ pc = "input"
    /\ msg' = Message_new(kind, sequence, payload)
    /\ pc' = "constructed"
    /\ UNCHANGED <<kind, sequence, payload, ser, data, tampers, ptype, parsed>>
    /\ UNCHANGED diveVars

Serialize ==
    /\ pc = "constructed"
    /\ msg.ok
    /\ ser' = Message_serialize(msg.val)
    /\ pc' = "serialized"
    /\ UNCHANGED <<kind, sequence, payload, msg, data, tampers, ptype, parsed>>
    /\ UNCHANGED diveVars

\* the caller hands over exactly the first `len` bytes of the buffer
SendExact ==
    /\ pc = "serialized"
    /\ ser.ok
    /\ data' = SubSeq(ser.val.buffer, 1, ser.val.len)
    /\ pc' = "received"
    /\ UNCHANGED <<kind, sequence, payload, msg, ser, tampers, ptype, parsed>>
    /\ UNCHANGED diveVars

\* the caller hands over the whole fixed-size buffer
SendBuffer ==
    /\ pc = "serialized"
    /\ ser.ok
    /\ data' = ser.val.buffer
    /\ pc' = "received"
    /\ UNCHANGED <<kind, sequence, payload, msg, ser, tampers, ptype, parsed>>
    /\ UNCHANGED diveVars

\* the transport delivers only a prefix of the message
SendTruncated ==
    /\ pc = "serialized"
    /\ ser.ok
    /\ \E n \in {ser.val.len - c : c \in 1..MaxCut}
              \cup {0, MIN_HEADER_LEN - 1, MIN_HEADER_LEN} :
          /\ n >= 0
          /\ n < ser.val.len
          /\ data' = SubSeq(ser.val.buffer, 1, n)
    /\ pc' = "received"
    /\ UNCHANGED <<kind, sequence, payload, msg, ser, tampers, ptype, parsed>>
    /\ UNCHANGED diveVars

\* the transport flips bits of one received byte
Tamper ==
    /\ pc = "received"
    /\ ser.ok
    /\ tampers < MaxTamper
    /\ \E i \in 1..TamperSpan, mask \in TamperMasks :
          /\ i <= Len(data)
          /\ data' = [data EXCEPT ![i] = Xor8(data[i], mask)]
    /\ tampers' = tampers + 1
    /\ UNCHANGED <<pc, kind, sequence, payload, msg, ser, ptype, parsed>>
    /\ UNCHANGED diveVars

\* the payload_length values a foreign sender may declare in front of a body
\* of n bytes: none, the body, or the most a header can say
DeclaredLengths(n) == {0, n, U16_MAX}

\* try_from is handed a message framed by a sender other than serialize: a
\* header that validates, declaring some payload_length; the encoded payload
\* followed by up to MaxPad zero bytes; and the checksum of that body
ReceiveForeign ==
    /\ pc = "input"
    /\ to_slice(payload, MAX_MESSAGE_SIZE).ok
    /\ \E pad \in 1..MaxPad :
          LET body == Encode(payload) \o Zeros(pad)
          IN  \E l \in DeclaredLengths(Len(body)) :
                 data' = EncodeHeader(MessageHeader_new(kind, sequence, l))
                         \o body \o <<calculate_checksum(body)>>
    /\ pc' = "received"
    /\ UNCHANGED <<kind, sequence, payload, msg, ser, tampers, ptype, parsed>>
    /\ UNCHANGED diveVars

Parse ==
    /\ pc = "received"
    /\ \E ty \in ParseTypes(payload) :
          /\ ptype' = ty
          /\ parsed' = Message_try_from(data, ty)
    /\ pc' = "parsed"
    /\ UNCHANGED <<kind, sequence, payload, msg, ser, data, tampers>>
    /\ UNCHANGED diveVars

Next ==
    \/ New
    \/ Serialize
    \/ SendExact
    \/ SendBuffer
    \/ SendTruncated
    \/ ReceiveForeign
    \/ Tamper
    \/ Parse

Spec == Init /\ [][Next]_vars

(***************************************************************************)
(* Single-bit corruption of a serialized message                           *)
(***************************************************************************)
\* positions (from 1) of the kind, sequence and payload_length bytes in the
\* encoding of header h: after magic and version, before header_checksum
HeaderFieldPositions(h) == 4..(Len(EncodeHeader(h)) - 1)

\* positions (from 1) of the payload bytes in a message with header h
PayloadPositions(h) ==
    (Len(EncodeHeader(h)) + 1)..(Len(EncodeHeader(h)) + h.payload_length)

FlipMasks == {1, 2, 4, 8, 16, 32, 64, 128}

\* one bit of a header field byte or of one of the first FlipSpan payload
\* bytes of the serialized message is inverted before try_from sees it
Flip ==
    /\ pc = "received"
    /\ tampers = 0
    /\ \E i \in HeaderFieldPositions(msg.val.header)
                 \cup PayloadPositions(msg.val.header),
          mask \in FlipMasks :
          /\ i <= Len(EncodeHeader(msg.val.header)) + FlipSpan
          /\ data' = [data EXCEPT ![i] = Xor8(data[i], mask)]
    /\ tampers' = 1
    /\ UNCHANGED <<pc, kind, sequence, payload, msg, ser, ptype, parsed>>
    /\ UNCHANGED diveVars

NextFlip ==
    \/ New
    \/ Serialize
    \/ SendExact
    \/ Flip
    \/ Parse

SpecFlip == Init /\ [][NextFlip]_vars

(***************************************************************************)
(* The state machine of a dive: a profile is created, then updated and     *)
(* used in calculations in any order                                       *)
(***************************************************************************)
InitDive ==
    /\ pc = "input"
    /\ kind = "Command"
    /\ sequence = 123
    /\ payload = UnitValue
    /\ msg = None
    /\ ser = None
    /\ data = <<>>
    /\ tampers = 0
    /\ ptype = UnitT
    /\ parsed = None
    /\ \E gas \in GasTypes :
          /\ profile = DiveProfile_new(gas)
          /\ before = DiveProfile_new(gas)
    /\ depths = <<>>
    /\ op = "new"
    /\ calc = NoCalc

UpdateDepth ==
    /\ Len(depths) < MaxDepthUpdates
    /\ \E new_depth_cm \in Depths :
          /\ profile' = update_depth(profile, new_depth_cm)
          /\ depths' = Append(depths, new_depth_cm)
    /\ before' = profile
    /\ op' = "update_depth"
    /\ calc' = NoCalc
    /\ UNCHANGED protocolVars

IncrementDuration ==
    /\ \E seconds \in Seconds :
          /\ profile.duration_seconds + seconds <= MaxDuration
          /\ profile' = increment_duration(profile, seconds)
    /\ before' = profile
    /\ op' = "increment_duration"
    /\ calc' = NoCalc
    /\ UNCHANGED depths
    /\ UNCHANGED protocolVars

UpdateTemperature ==
    /\ \E celsius_x10 \in Temperatures :
          profile' = update_temperature(profile, celsius_x10)
    /\ before' = profile
    /\ op' = "update_temperature"
    /\ calc' = NoCalc
    /\ UNCHANGED depths
    /\ UNCHANGED protocolVars

\* calculate_ndl(current_depth_cm / 100, gas) as in dive_calc_example, built
\* with or without overflow checks
CalculateNdl ==
    /\ \E overflow_checks \in BOOLEAN :
          calc' = calculate_ndl(profile.current_depth_cm \div 100, profile.gas,
                                overflow_checks)
    /\ before' = profile
    /\ op' = "calculate_ndl"
    /\ UNCHANGED <<profile, depths>>
    /\ UNCHANGED protocolVars

CalculateEad ==
    /\ \E overflow_checks \in BOOLEAN :
          calc' = calculate_ead(profile.current_depth_cm \div 100, profile.gas,
                                overflow_checks)
    /\ before' = profile
    /\ op' = "calculate_ead"
    /\ UNCHANGED <<profile, depths>>
    /\ UNCHANGED protocolVars

NextDive ==
    \/ UpdateDepth
    \/ IncrementDuration
    \/ UpdateTemperature
    \/ CalculateNdl
    \/ CalculateEad

SpecDive == InitDive /\ [][NextDive]_vars

(***************************************************************************)
(* Properties                                                              *)
(***************************************************************************)
IsErr(r, e) == ~r.ok /\ r.err = e

\* the bytes serialize reports as written: the first `len` bytes of its buffer
Written == SubSeq(ser.val.buffer, 1, ser.val.len)

\* a state in which try_from has run on exactly the serialized bytes, asked for
\* the payload type that was sent
ParsedExact == pc = "parsed" /\ ser.ok /\ data = Written /\ ptype = payload.ty

\* C1: round trip.  Whenever Message::new and serialize both succeed, try_from
\* on exactly the first `len` bytes of the buffer returns Ok with an envelope
\* equal to the constructed one in every header field, the payload value and
\* the payload checksum.
C1_RoundTrip ==
    ParsedExact => (parsed.ok /\ parsed.val = msg.val)

\* C2: empty payload.  A payload that encodes to zero bytes gets
\* payload_length = 0 and payload_checksum = 0xFF, serialize succeeds, and
\* try_from on exactly the serialized bytes returns Ok with an equal envelope.
C2_EmptyPayloadRoundTrip ==
    (Encode(payload) = <<>>) =>
        /\ (msg.ok =>
               /\ msg.val.header.payload_length = 0
               /\ msg.val.payload_checksum = 255)
        /\ (pc = "serialized" => ser.ok)
        /\ (ParsedExact => (parsed.ok /\ parsed.val = msg.val))

\* C3: size bound at construction.  Message::new returns
\* Err(MessageTooLarge) for every payload whose encoded length plus the header
\* size plus 1 exceeds MAX_MESSAGE_SIZE.
C3_SizeBoundAtConstruction ==
    (/\ pc = "constructed"
     /\ Len(Encode(payload))
          + Len(EncodeHeader(MessageHeader_new(kind, sequence, Len(Encode(payload)))))
          + 1 > MAX_MESSAGE_SIZE)
    => IsErr(msg, "MessageTooLarge")

\* the header try_from decodes from the received bytes
Decoded == DecodeHeader(data)

\* try_from got past its minimum-length gate and decoded a header
HeaderDecoded == pc = "parsed" /\ Len(data) >= MIN_HEADER_LEN /\ Decoded.ok

\* C4: header gating order.  Once the header decodes, a wrong magic gives
\* InvalidMagic and a wrong version with correct magic gives UnsupportedVersion,
\* whatever the header checksum; a wrong header checksum gives ChecksumMismatch
\* exactly when magic and version are both correct.
C4_HeaderGatingOrder ==
    (pc = "parsed" /\ Len(data) >= MIN_HEADER_LEN) =>
        LET d == Decoded
            h == d.val.header
        IN  d.ok =>
            /\ (h.magic # MESSAGE_MAGIC) => IsErr(parsed, "InvalidMagic")
            /\ (h.magic = MESSAGE_MAGIC /\ h.version # PROTOCOL_VERSION)
                   => IsErr(parsed, "UnsupportedVersion")
            /\ (~validate_checksum(h)) =>
                   (IsErr(parsed, "ChecksumMismatch")
                       <=> (h.magic = MESSAGE_MAGIC /\ h.version = PROTOCOL_VERSION))

C4_Witness ==
    /\ HeaderDecoded
    /\ Decoded.val.header.magic # MESSAGE_MAGIC
    /\ ~validate_checksum(Decoded.val.header)
    /\ IsErr(parsed, "InvalidMagic")

\* C5: truncation.  For an input whose header decodes and passes the magic,
\* version and header-checksum checks, try_from returns InvalidFormat whenever
\* the input is shorter than header bytes + payload_length + 1, whatever
\* payload type was asked for.
C5_Truncation ==
    pc = "parsed" =>
        LET d == Decoded
            h == d.val.header
        IN  (/\ d.ok
             /\ ValidateHeader(h) = ""
             /\ Len(data) < d.val.size + h.payload_length + 1)
            => IsErr(parsed, "InvalidFormat")

C5_Witness ==
    /\ HeaderDecoded
    /\ ValidateHeader(Decoded.val.header) = ""
    /\ Len(data) < Decoded.val.size + Decoded.val.header.payload_length + 1
    /\ IsErr(parsed, "InvalidFormat")

\* C6: fixed wire layout.  The header serialize emits is 9 bytes: magic at
\* offsets 0-1, version at 2, kind at 3, sequence big-endian at 4-5,
\* payload_length big-endian at 6-7, header_checksum at 8; the payload starts
\* at offset 9 and the returned length is 9 + payload_length + 1.
C6_FixedWireLayout ==
    (pc = "serialized" /\ ser.ok) =>
        LET b == ser.val.buffer
            h == msg.val.header
        IN  /\ <<b[1], b[2]>> = h.magic
            /\ b[3] = h.version
            /\ <<b[5], b[6]>> = <<h.sequence \div 256, h.sequence % 256>>
            /\ <<b[7], b[8]>> = <<h.payload_length \div 256, h.payload_length % 256>>
            /\ b[9] = h.header_checksum
            /\ SubSeq(b, 10, 9 + h.payload_length) = Encode(payload)
            /\ ser.val.len = 9 + h.payload_length + 1

\* C7: kind wire tag.  The kind byte serialize writes into the header is the
\* tag Command=1, Response=2, Notification=3, Ack=4, Error=5, the value that
\* enters the header checksum, and try_from maps that byte back to the same kind.
C7_KindWireTag ==
    /\ (pc = "serialized" /\ ser.ok) =>
           ser.val.buffer[4] = KindAsU8(msg.val.header.kind)
    /\ (HeaderDecoded /\ data[4] \in 1..5) =>
           KindAsU8(Decoded.val.header.kind) = data[4]

\* C8: wire header checksum.  In every serialized message the byte at offset 8
\* is the header checksum and equals calculate_checksum of the wire bytes [0..8).
C8_WireHeaderChecksum ==
    (pc = "serialized" /\ ser.ok) =>
        /\ ser.val.buffer[9] = msg.val.header.header_checksum
        /\ ser.val.buffer[9] = calculate_checksum(SubSeq(ser.val.buffer, 1, 8))

\* the plain sum of bytes[lo..hi]
RECURSIVE SumBytes(_, _, _)
SumBytes(bytes, lo, hi) ==
    IF lo > hi THEN 0
    ELSE IF lo = hi THEN bytes[lo]
    ELSE SumBytes(bytes, lo, (lo + hi) \div 2)
         + SumBytes(bytes, (lo + hi) \div 2 + 1, hi)

ComplementOfSum(bytes) == 255 - (SumBytes(bytes, 1, Len(bytes)) % 256)

\* C9: calculate_checksum(bytes) is 255 minus the sum of the bytes modulo 256,
\* for every serialized message as sent (exact, whole buffer, or cut short),
\* every encoded payload and every header checksum image, and 0xFF for the
\* empty sequence.
C9_ChecksumComplementOfSum ==
    /\ (pc = "received" /\ tampers = 0) =>
           calculate_checksum(data) = ComplementOfSum(data)
    /\ pc = "input" =>
           calculate_checksum(Encode(payload)) = ComplementOfSum(Encode(payload))
    /\ (pc = "constructed" /\ msg.ok) =>
           msg.val.header.header_checksum
               = ComplementOfSum(ChecksumImage(msg.val.header))
    /\ data = <<>> => calculate_checksum(data) = 255

C9_Witness ==
    /\ pc = "received"
    /\ tampers = 0
    /\ SumBytes(data, 1, Len(data)) > 255
    /\ calculate_checksum(data) = ComplementOfSum(data)
    /\ calculate_checksum(data) # 255

\* the header bytes serialize writes in front of the payload
HeaderBytes == Len(EncodeHeader(msg.val.header))

\* C10: construction invariant.  Every envelope Message::new returns Ok has
\* payload_length equal to the length of the payload's encoding and
\* payload_checksum equal to calculate_checksum of those bytes, and a
\* successful serialize writes exactly those bytes after the header, followed
\* by that checksum byte.
C10_ConstructionInvariant ==
    (pc \in {"constructed", "serialized"} /\ msg.ok) =>
        /\ msg.val.header.payload_length = Len(Encode(msg.val.payload))
        /\ msg.val.payload_checksum = calculate_checksum(Encode(msg.val.payload))
        /\ ser.ok =>
               /\ SubSeq(ser.val.buffer, HeaderBytes + 1,
                         HeaderBytes + msg.val.header.payload_length)
                      = Encode(msg.val.payload)
               /\ ser.val.buffer[HeaderBytes + msg.val.header.payload_length + 1]
                      = msg.val.payload_checksum
               /\ ser.val.len = HeaderBytes + msg.val.header.payload_length + 1

C10_Witness ==
    /\ pc = "serialized"
    /\ ser.ok
    /\ msg.val.header.payload_length > 0
    /\ ser.val.len = HeaderBytes + msg.val.header.payload_length + 1

\* try_from has run and answered Ok
ParsedOk == pc = "parsed" /\ parsed.ok

\* C11: no partially validated result.  Every envelope try_from returns Ok has
\* the magic and version constants, a header checksum that validates, an input
\* of at least header_bytes + payload_length + 1 bytes, and a payload_checksum
\* equal both to the input byte at offset header_bytes + payload_length and to
\* calculate_checksum of the payload_length bytes after the header; an input
\* failing any of these is not answered with Ok.
C11_NoPartiallyValidatedResult ==
    ParsedOk =>
        /\ Decoded.ok
        /\ LET header == Decoded.val.header
               header_bytes == Decoded.val.size
               payload_end == header_bytes + header.payload_length
           IN  /\ parsed.val.header = header
               /\ header.magic = MESSAGE_MAGIC
               /\ header.version = PROTOCOL_VERSION
               /\ validate_checksum(header)
               /\ Len(data) >= payload_end + 1
               /\ parsed.val.payload_checksum = data[payload_end + 1]
               /\ parsed.val.payload_checksum =
                      calculate_checksum(SubSeq(data, header_bytes + 1, payload_end))

\* an accepted non-empty payload taken from an input longer than the message
C11_Witness ==
    /\ ParsedOk
    /\ parsed.val.header.payload_length > 0
    /\ Len(data) > Decoded.val.size + parsed.val.header.payload_length + 1

\* C12: serialize overflow.  serialize returns Err(MessageTooLarge) whenever
\* the header bytes plus the payload bytes reach or exceed MAX_MESSAGE_SIZE, so
\* that the trailing checksum byte does not fit: both when the running offset
\* is exactly MAX_MESSAGE_SIZE and when the payload would run past the end of
\* the buffer; no (length, buffer) pair is returned.
C12_SerializeOverflow ==
    (pc = "serialized" /\ msg.ok
        /\ HeaderBytes + Len(Encode(msg.val.payload)) >= MAX_MESSAGE_SIZE)
    => IsErr(ser, "MessageTooLarge")

\* the input differs from the serialized message in exactly one bit
SingleFlip ==
    /\ tampers = 1
    /\ ser.ok
    /\ Len(data) = ser.val.len
    /\ \E i \in 1..Len(data) :
          /\ Xor8(data[i], Written[i]) \in FlipMasks
          /\ \A j \in 1..Len(data) : j # i => data[j] = Written[j]

FlipPosition == CHOOSE i \in 1..Len(data) : data[i] # Written[i]

FlipMask == Xor8(data[FlipPosition], Written[FlipPosition])

FlipInHeaderFields == FlipPosition \in HeaderFieldPositions(msg.val.header)

FlipInPayload == FlipPosition \in PayloadPositions(msg.val.header)

\* C13 as stated: checksum sensitivity.  For a valid serialized message,
\* flipping any single bit in the kind, sequence or payload_length bytes of
\* the header or in any payload byte makes try_from return ChecksumMismatch:
\* the flip is never accepted and never reported as a different error.
C13_ChecksumSensitivity ==
    (pc = "parsed" /\ SingleFlip /\ ptype = payload.ty
        /\ (FlipInHeaderFields \/ FlipInPayload))
    => IsErr(parsed, "ChecksumMismatch")

\* C13 amended: flipping one of the low seven bits of a kind, sequence or
\* payload_length byte, or any single bit of a payload byte, is never
\* accepted.  try_from returns InvalidFormat when the message is shorter than
\* 9 bytes, otherwise DeserializationError when the altered header or the
\* altered payload no longer decodes, otherwise ChecksumMismatch.
C13_FlipRejected ==
    (pc = "parsed" /\ SingleFlip
        /\ (FlipInPayload \/ (FlipInHeaderFields /\ FlipMask < 128)))
    => LET undecodable ==
               \/ ~Decoded.ok
               \/ /\ FlipInPayload
                  /\ ~from_bytes(ptype,
                         SubSeq(data, Decoded.val.size + 1,
                                Decoded.val.size
                                  + Decoded.val.header.payload_length)).ok
       IN  /\ ~parsed.ok
           /\ parsed.err = IF Len(data) < MIN_HEADER_LEN THEN "InvalidFormat"
                           ELSE IF undecodable THEN "DeserializationError"
                           ELSE "ChecksumMismatch"

\* a flipped payload bit that try_from catches with the payload checksum
C13_Witness ==
    /\ pc = "parsed"
    /\ SingleFlip
    /\ ptype = payload.ty
    /\ FlipInPayload
    /\ IsErr(parsed, "ChecksumMismatch")

\* try_from has reached its payload stage: the input has at least 9 bytes,
\* its header decodes and passes the magic, version and checksum checks, and
\* the input is long enough for the declared payload and its checksum byte
PayloadStage ==
    /\ HeaderDecoded
    /\ ValidateHeader(Decoded.val.header) = ""
    /\ EnoughData(data, Decoded.val.size, Decoded.val.header)

\* the payload_length bytes that follow the header in the input
PayloadSlice ==
    SubSeq(data, Decoded.val.size + 1,
           Decoded.val.size + Decoded.val.header.payload_length)

\* the input byte that follows the payload slice
TrailingChecksum ==
    data[Decoded.val.size + Decoded.val.header.payload_length + 1]

\* C14: payload stage ordering.  When the header is valid and the input is
\* long enough, the slice of exactly payload_length bytes is decoded before
\* the payload checksum is verified: a slice that fails to decode yields
\* DeserializationError whatever the trailing checksum byte is, and the
\* payload ChecksumMismatch is returned only for a slice that decoded.
C14_PayloadStageOrdering ==
    (pc = "parsed" /\ Len(data) >= MIN_HEADER_LEN) =>
        LET d == Decoded
            h == d.val.header
            slice == SubSeq(data, d.val.size + 1, d.val.size + h.payload_length)
            decodes == from_bytes(ptype, slice).ok
            matches == calculate_checksum(slice)
                           = data[d.val.size + h.payload_length + 1]
        IN  (/\ d.ok
             /\ ValidateHeader(h) = ""
             /\ EnoughData(data, d.val.size, h))
            => /\ ~decodes => IsErr(parsed, "DeserializationError")
               /\ IsErr(parsed, "ChecksumMismatch") => (decodes /\ ~matches)
               /\ (decodes /\ ~matches) => IsErr(parsed, "ChecksumMismatch")

\* a slice that does not decode and whose checksum byte is wrong as well
C14_Witness ==
    /\ PayloadStage
    /\ ~from_bytes(ptype, PayloadSlice).ok
    /\ calculate_checksum(PayloadSlice) # TrailingChecksum
    /\ IsErr(parsed, "DeserializationError")

\* the discriminant `kind as u8` of each MessageKind, as declared
KindTag ==
    [k \in Kinds |-> CASE k = "Command" -> 1
                       [] k = "Response" -> 2
                       [] k = "Notification" -> 3
                       [] k = "Ack" -> 4
                       [] k = "Error" -> 5]

\* payload_length arguments tried besides the one Message::new passed
HeaderLengths == {0, 255, 256, U16_MAX}

\* C15: header build and validate.  MessageHeader::new sets magic and version
\* to the constants, stores kind, sequence and payload_length verbatim and
\* sets header_checksum to calculate_checksum of the 8 bytes [magic0, magic1,
\* version, kind tag, sequence high, sequence low, length high, length low];
\* validate_checksum of that header is true, and false when header_checksum
\* alone is changed to any other value.
C15_HeaderBuildValidate ==
    (pc = "constructed" /\ msg.ok) =>
        /\ msg.val.header =
               MessageHeader_new(kind, sequence, msg.val.header.payload_length)
        /\ \A l \in HeaderLengths \cup {msg.val.header.payload_length} :
              LET h == MessageHeader_new(kind, sequence, l)
              IN  /\ h.magic = MESSAGE_MAGIC
                  /\ h.version = PROTOCOL_VERSION
                  /\ h.kind = kind
                  /\ h.sequence = sequence
                  /\ h.payload_length = l
                  /\ h.header_checksum =
                         ComplementOfSum(<< 220, 66, 1, KindTag[kind],
                                            sequence \div 256, sequence % 256,
                                            l \div 256, l % 256 >>)
                  /\ validate_checksum(h)
                  /\ \A c \in 0..255 :
                        c # h.header_checksum =>
                            ~validate_checksum([h EXCEPT !.header_checksum = c])

\* a header built for a sequence number and a payload length above 255
C15_Witness ==
    /\ pc = "constructed"
    /\ msg.ok
    /\ msg.val.header.sequence > 255
    /\ msg.val.header.payload_length > 255
    /\ validate_checksum(msg.val.header)

\* C16: parse is total.  For every byte sequence of any length, the empty one
\* and headers declaring any payload_length up to 65535 included, try_from
\* returns Ok or one of the seven ProtocolError values and never indexes the
\* input at or beyond its length: the payload slice and the trailing checksum
\* byte are read only after the length check has passed.
C16_ParseTotal ==
    pc = "parsed" =>
        /\ parsed.ok \/ parsed.err \in ProtocolError
        /\ (/\ parsed.ok \/ parsed.err \notin {"InvalidMagic", "UnsupportedVersion",
                                                "ChecksumMismatch", "InvalidFormat"}
            /\ Len(data) >= MIN_HEADER_LEN
            /\ Decoded.ok)
           => Len(data) >= Decoded.val.size
                            + Decoded.val.header.payload_length + 1

\* a valid header declaring 65535 payload bytes in front of a short input
C16_Witness ==
    /\ HeaderDecoded
    /\ ValidateHeader(Decoded.val.header) = ""
    /\ Decoded.val.header.payload_length = U16_MAX
    /\ Len(data) < U16_MAX
    /\ IsErr(parsed, "InvalidFormat")

\* C17: length matches the decoded payload.  Every envelope try_from returns
\* Ok has header.payload_length equal to the byte length of the codec encoding
\* of its decoded payload value: the decoder consumed the whole payload slice.
C17_LengthMatchesPayload ==
    (ParsedOk /\ ptype = payload.ty) =>
        parsed.val.header.payload_length = Len(Encode(parsed.val.payload))

SameResult(a, b) == a.ok = b.ok /\ a.err = b.err /\ (a.ok => a.val = b.val)

\* the shortest prefix of the input that holds the header, the declared
\* payload and the payload checksum byte
DeclaredMessage ==
    SubSeq(data, 1, Decoded.val.size + Decoded.val.header.payload_length + 1)

\* C18: trailing bytes do not matter.  If the header decoded from m declares
\* header_bytes + payload_length + 1 <= len(m), then try_from on m followed by
\* any bytes s returns the same result as try_from on m; in particular the
\* whole 256-byte buffer parses like its first `len` bytes.
C18_TrailingBytesIgnored ==
    (/\ pc = "parsed"
     /\ Decoded.ok
     /\ Decoded.val.size + Decoded.val.header.payload_length + 1 <= Len(data))
    => SameResult(parsed, Message_try_from(DeclaredMessage, ptype))

RECURSIVE MaxOf(_, _)
\* the largest element of depth sequence s, 0 for the empty sequence
MaxOf(s, i) ==
    IF i > Len(s) THEN 0
    ELSE LET rest == MaxOf(s, i + 1)
         IN  IF s[i] > rest THEN s[i] ELSE rest

\* the fields of a DiveProfile other than the two depths
OtherFields(p) ==
    <<p.duration_seconds, p.gas, p.temperature_celsius_x10,
      p.ascent_rate_cm_per_min, p.descent_rate_cm_per_min>>

\* C19: depth tracking.  After new and any sequence of update_depth,
\* increment_duration and update_temperature calls, current_depth_cm is the
\* depth of the last update_depth call (0 if none) and max_depth_cm the
\* largest depth passed to update_depth (0 if none); max_depth_cm is at least
\* current_depth_cm and never decreases, and update_depth changes no other
\* field.
C19_DepthTracking ==
    /\ profile.current_depth_cm =
           IF depths = <<>> THEN 0 ELSE depths[Len(depths)]
    /\ profile.max_depth_cm = MaxOf(depths, 1)
    /\ profile.max_depth_cm >= profile.current_depth_cm
    /\ profile.max_depth_cm >= before.max_depth_cm
    /\ op = "update_depth" => OtherFields(profile) = OtherFields(before)

\* a dive that went down to the deepest depth and came back up, with time
\* and temperature recorded in between
C19_Witness ==
    /\ op = "update_depth"
    /\ Len(depths) >= 2
    /\ profile.current_depth_cm < profile.max_depth_cm
    /\ profile.duration_seconds > 0
    /\ profile.temperature_celsius_x10 # 200

\* C20: the u8 subtractions never underflow.  For every GasType value,
\* `100 - oxygen_percent` (calculate_ndl and calculate_ead, Nitrox and Trimix)
\* and `100 - oxygen_percent - helium_percent` (calculate_ead, Trimix)
\* evaluate to a value in 0..100 without wrapping or panicking.
C20_NoU8Underflow ==
    (op \in {"calculate_ndl", "calculate_ead"} /\ calc.subtracts) =>
        /\ ~calc.panic
        /\ calc.percent \in 0..100

====
